---- MODULE Spec2Model ----
(***************************************************************************)
(* Model of the Bertrand oligopoly game of open_spiel                      *)
(* (open_spiel/games/bertrand_oligopoly/bertrand_oligopoly.{h,cc}).        *)
(*                                                                         *)
(* The variables are the fields of one BertrandOligopolyState together     *)
(* with the record of the last call made on it (the operation, its         *)
(* argument, whether it ended in SpielFatalError, and what it returned),   *)
(* the objects that exist, and a second state object (a clone) when the    *)
(* caller holds one.                                                       *)
(*                                                                         *)
(* Numbers.  A C++ double d is modelled by the integer d * Scale (fixed    *)
(* point); exp is computed by its power series in that fixed point.  The   *)
(* conversions the code performs between double and int (the truncation    *)
(* in `max_points = points_[p]`, the promotion in                          *)
(* `points_[p] > max_points`) are modelled as what they do.  Values        *)
(* returned by Returns() are exact rationals <<numerator, denominator>>.   *)
(* Vectors indexed by player are functions on 0 .. n-1, as in the code.    *)
(* A float f of a tensor is modelled by the integer f * FloatScale, a      *)
(* coarser grid than that of the doubles, so that the narrowing            *)
(* `float = double` loses digits as it does in the code.                   *)
(*                                                                         *)
(* Specifications.  Spec steps one state and asks for its returns;         *)
(* SpecClone steps a state and its clone; SpecObs steps a state and        *)
(* renders its views and queries; SpecGame loads a game, makes its states  *)
(* and steps them by joint and by flat actions.                            *)
(***************************************************************************)
EXTENDS Integers, Sequences, FiniteSets, TLC

VARIABLES
    num_players_,      \* State::num_players_ (from the game's "players")
    num_options_,      \* part_000:121
    num_turns_,        \* part_000:122
    marginal_cost_,    \* part_000:124
    returns_type_,     \* part_000:128
    impinfo_,          \* part_000:129
    egocentric_,       \* part_000:130
    current_player_,   \* part_000:140
    winners_,          \* part_000:141
    current_turn_,     \* part_000:142
    points_,           \* part_000:143
    net_profit_,       \* part_000:137
    win_sequence_,     \* part_000:144
    actions_history_,  \* part_000:145
    call,              \* the last operation called on the state and its argument
    fatal,             \* TRUE iff the last call ended in SpielFatalError (the
                       \* SPIEL_CHECK macros); the state object is as the call left it
    returned,          \* the value the last call returned (<<>> if none)
    objects,           \* which of the "game" and the "state" have been constructed
    other,             \* <<>>, or <<o>> for the second state object the caller
                       \* holds after Clone(): o.state is its fields, o.shared the
                       \* names of the fields whose storage it shares
    focus              \* which of the two objects the field variables hold:
                       \* "original" or "clone" (the other one is in `other`)

config == <<num_players_, num_options_, num_turns_, marginal_cost_, returns_type_,
            impinfo_, egocentric_>>

fields == <<current_player_, winners_, current_turn_, points_, net_profit_,
            win_sequence_, actions_history_>>

vars == <<config, fields, call, fatal, returned, objects, other, focus>>

----------------------------------------------------------------------------
(* Bounds of the model *)

\* The longest run: applications of a joint action to one state.
MaxRounds == 2

\* Fixed-point unit: the double d is the integer d * Scale.
Scale == 1000

\* The configurations explored: <<"players", "num_options">>, "num_turns",
\* "marginal_cost" (the game type declares min_num_players = 2 and the
\* constructor requires num_options > 1; num_turns is any int).
PlayersOptionsChoices == {<<2, 2>>, <<2, 3>>, <<3, 2>>}
TurnsChoices == 0 .. MaxRounds
MarginalCostChoices == {1, 3}

----------------------------------------------------------------------------
(* Constants of the program *)

kSimultaneousPlayerId == -2
kInvalidPlayer == -3
kTerminalPlayerId == -4
INT_MAX == 2147483647

kChancePlayerId == -1

ReturnsType == {"kWinLoss", "kPointDifference", "kTotalPoints"}

kDefaultReturnsType == "kTotalPoints"
kDefaultImpInfo == FALSE
kDefaultEgocentric == FALSE
kDefaultMarginalCost == 1

kDefaultIntervalSize == Scale \div 10
kDefaultHorizontalDifferentiation == Scale \div 4
kDefaultOutsideGood == 0
vertical_differentiation_ == 2 * Scale
nash_price_ == (147292 * Scale) \div 100000
monopoly_price_ == (192498 * Scale) \div 100000

----------------------------------------------------------------------------
(* Arithmetic *)

Players == 0 .. (num_players_ - 1)

Size(v) == Cardinality(DOMAIN v)

\* Division of doubles, rounded towards zero in the last fixed-point digit.
FDiv(a, b) == IF a >= 0 THEN a \div b ELSE -((-a) \div b)

RECURSIVE ExpSeries(_, _, _, _)
ExpSeries(x, term, k, acc) ==
    IF term = 0 THEN acc
    ELSE ExpSeries(x, (term * x) \div (k * Scale), k + 1, acc + term)

\* exp(x) for a fixed-point x.
Exp(x) ==
    IF x >= 0 THEN ExpSeries(x, Scale, 1, 0)
    ELSE (Scale * Scale) \div ExpSeries(-x, Scale, 1, 0)

\* (int) d : conversion of a double to int truncates towards zero.
DoubleToInt(d) == IF d >= 0 THEN d \div Scale ELSE -((-d) \div Scale)

\* (double) i : promotion of an int in a comparison with a double.
IntToDouble(i) == i * Scale

----------------------------------------------------------------------------
(* Pricing geometry: the constructor of BertrandOligopolyState *)

interval_first ==
    nash_price_ - FDiv(kDefaultIntervalSize * (monopoly_price_ - nash_price_), Scale)

interval_second ==
    monopoly_price_ + FDiv(kDefaultIntervalSize * (monopoly_price_ - nash_price_), Scale)

step_size__PerOption == FDiv(interval_second - interval_first, num_options_)

step_size_ == FDiv(interval_second - interval_first, num_options_ - 1)

Price(action) == (action * step_size_) + interval_first

----------------------------------------------------------------------------
(* BertrandOligopolyState *)

IsTerminal == current_player_ = kTerminalPlayerId

\* The checks at the head of DoApplyActions (SPIEL_CHECK_EQ / _GE / _LT).
ValidActions_NoUpperCheck(actions) ==
    /\ Size(actions) = num_players_
    /\ \A p \in Players : actions[p] >= 0

ValidActions(actions) ==
    /\ Size(actions) = num_players_
    /\ \A p \in Players : actions[p] >= 0 /\ actions[p] < num_options_

\* "Find the lowest price": the scan over the joint action from player p on.
RECURSIVE MinScan_NoReset(_, _, _, _, _)
MinScan_NoReset(actions, p, min_price, num_min_prices, min_actor) ==
    IF p >= Size(actions)
    THEN [min_price |-> min_price, num_min_prices |-> num_min_prices,
          min_actor |-> min_actor]
    ELSE IF actions[p] < min_price
         THEN MinScan_NoReset(actions, p + 1, actions[p],
                              IF num_min_prices = 0 THEN 1 ELSE num_min_prices, p)
         ELSE IF actions[p] = min_price
              THEN MinScan_NoReset(actions, p + 1, min_price, num_min_prices + 1,
                                   min_actor)
              ELSE MinScan_NoReset(actions, p + 1, min_price, num_min_prices,
                                   min_actor)

RECURSIVE MinScan(_, _, _, _, _)
MinScan(actions, p, min_price, num_min_prices, min_actor) ==
    IF p >= Size(actions)
    THEN [min_price |-> min_price, num_min_prices |-> num_min_prices,
          min_actor |-> min_actor]
    ELSE IF actions[p] < min_price
         THEN MinScan(actions, p + 1, actions[p], 1, p)
         ELSE IF actions[p] = min_price
              THEN MinScan(actions, p + 1, min_price, num_min_prices + 1, min_actor)
              ELSE MinScan(actions, p + 1, min_price, num_min_prices, min_actor)

\* win_sequence_ after the push_back of the round.
WinSequenceAfter_NoPushOnTie(actions) ==
    LET scan == MinScan(actions, 0, INT_MAX, 0, -1)
    IN  IF scan.num_min_prices = 1
        THEN Append(win_sequence_, scan.min_actor)
        ELSE win_sequence_

WinSequenceAfter(actions) ==
    LET scan == MinScan(actions, 0, INT_MAX, 0, -1)
    IN  IF scan.num_min_prices = 1
        THEN Append(win_sequence_, scan.min_actor)
        ELSE Append(win_sequence_, kInvalidPlayer)

\* exp((vertical_differentiation_[p] - price) / horizontal_differentiation_)
Attraction(action) ==
    Exp(FDiv((vertical_differentiation_ - Price(action)) * Scale,
             kDefaultHorizontalDifferentiation))

RECURSIVE DemandDenominator(_, _, _)
DemandDenominator(actions, p, acc) ==
    IF p >= Size(actions) THEN acc
    ELSE DemandDenominator(actions, p + 1, acc + Attraction(actions[p]))

NetProfit_FusedLoop(actions) ==
    LET outside ==
            Exp(FDiv(IntToDouble(kDefaultOutsideGood) * Scale,
                     kDefaultHorizontalDifferentiation))
        demand_denominator(p) ==
            DemandDenominator(actions, 0, outside)
                - DemandDenominator(actions, p + 1, 0)
    IN  [p \in DOMAIN actions |->
            FDiv((Price(actions[p]) - IntToDouble(marginal_cost_))
                     * Attraction(actions[p]),
                 demand_denominator(p))]

\* net_profit_ of the round, per player.
NetProfit(actions) ==
    LET demand_denominator ==
            DemandDenominator(actions, 0,
                Exp(FDiv(IntToDouble(kDefaultOutsideGood) * Scale,
                         kDefaultHorizontalDifferentiation)))
    IN  [p \in DOMAIN actions |->
            FDiv((Price(actions[p]) - IntToDouble(marginal_cost_))
                     * Attraction(actions[p]),
                 demand_denominator)]

\* `if (current_turn_ == num_turns_)`
GameOver_OffByOne(turn) == turn = num_turns_ + 1

GameOver(turn) == turn = num_turns_

\* current_player_ after the round: kTerminalPlayerId once the game is over,
\* otherwise left as it is.
PlayerAfter_ChanceNode(turn) ==
    IF GameOver(turn) THEN kTerminalPlayerId ELSE kChancePlayerId

PlayerAfter(turn) ==
    IF GameOver(turn) THEN kTerminalPlayerId ELSE current_player_

\* "Game over - determine winner": the loop over the players from p on, with
\* `int max_points`.
RECURSIVE DetermineWinners(_, _, _, _)
DetermineWinners(points, p, max_points, winners) ==
    IF p >= num_players_ THEN winners
    ELSE IF points[p] > IntToDouble(max_points)
         THEN DetermineWinners(points, p + 1, DoubleToInt(points[p]), {p})
         ELSE IF points[p] = IntToDouble(max_points)
              THEN DetermineWinners(points, p + 1, max_points, winners \cup {p})
              ELSE DetermineWinners(points, p + 1, max_points, winners)

----------------------------------------------------------------------------
(* Returns() *)

Zero == <<0, 1>>

RECURSIVE SumPoints(_, _)
SumPoints(points, p) ==
    IF p >= num_players_ THEN 0 ELSE points[p] + SumPoints(points, p + 1)

WinLossReturns ==
    IF Cardinality(winners_) = num_players_
    THEN [p \in Players |-> Zero]
    ELSE LET num_winners == Cardinality(winners_)
             num_losers == num_players_ - num_winners
         IN  [p \in Players |->
                 IF p \in winners_ THEN <<1, num_winners>> ELSE <<-1, num_losers>>]

\* returns[p] = points_[p] - sum / num_players_
PointDifferenceReturns_SkipFirst ==
    LET sum == SumPoints(points_, 1)
    IN  [p \in Players |-> <<num_players_ * points_[p] - sum, num_players_ * Scale>>]

PointDifferenceReturns ==
    LET sum == SumPoints(points_, 0)
    IN  [p \in Players |-> <<num_players_ * points_[p] - sum, num_players_ * Scale>>]

TotalPointsReturns == [p \in Players |-> <<points_[p], Scale>>]

Returns_NoTerminalCheck ==
    IF returns_type_ = "kWinLoss" THEN WinLossReturns
    ELSE IF returns_type_ = "kPointDifference" THEN PointDifferenceReturns
    ELSE TotalPointsReturns

Returns ==
    IF ~IsTerminal THEN [p \in Players |-> Zero]
    ELSE IF returns_type_ = "kWinLoss" THEN WinLossReturns
    ELSE IF returns_type_ = "kPointDifference" THEN PointDifferenceReturns
    ELSE TotalPointsReturns

----------------------------------------------------------------------------
(* The inputs of ApplyActions *)

JointActions == [Players -> 0 .. (num_options_ - 1)]

ConstantVector(n, a) == [p \in 0 .. (n - 1) |-> a]

\* Joint actions DoApplyActions must reject: one player too few or too many,
\* or one entry just outside [0, num_options_).
InvalidJointActions ==
    {ConstantVector(n, 0) : n \in {num_players_ - 1, num_players_ + 1}}
    \cup {[ConstantVector(num_players_, 0) EXCEPT ![p] = bad] :
             p \in Players, bad \in {-1, num_options_}}

----------------------------------------------------------------------------
(* Operations *)

\* The fields of the object the field variables hold.
FieldNames == {"current_player_", "winners_", "current_turn_", "points_",
               "net_profit_", "win_sequence_", "actions_history_"}

FieldsRecord ==
    [current_player_ |-> current_player_, winners_ |-> winners_,
     current_turn_ |-> current_turn_, points_ |-> points_,
     net_profit_ |-> net_profit_, win_sequence_ |-> win_sequence_,
     actions_history_ |-> actions_history_]

\* The second object after a write to this one: the fields whose storage the
\* two share follow this object's, the others stay.
OtherAfterWrite ==
    IF other = <<>> THEN other
    ELSE <<[state |-> [f \in FieldNames |->
                          IF f \in other[1].shared THEN FieldsRecord'[f]
                          ELSE other[1].state[f]],
            shared |-> other[1].shared]>>

\* The member initialisers and the body of the constructor of
\* BertrandOligopolyState.
Constructed ==
    /\ current_player_ = kSimultaneousPlayerId
    /\ winners_ = {}
    /\ current_turn_ = 0
    /\ win_sequence_ = <<>>
    /\ actions_history_ = <<>>
    /\ points_ = [p \in Players |-> 0]
    /\ net_profit_ = [p \in Players |-> 0]

\* NewInitialState(): a game loaded from its parameters and its initial state.
Init ==
    /\ \E c \in PlayersOptionsChoices : num_players_ = c[1] /\ num_options_ = c[2]
    /\ num_turns_ \in TurnsChoices
    /\ marginal_cost_ \in MarginalCostChoices
    /\ returns_type_ \in ReturnsType
    /\ impinfo_ = kDefaultImpInfo
    /\ egocentric_ = kDefaultEgocentric
    /\ Constructed
    /\ call = [op |-> "NewInitialState", actions |-> <<>>]
    /\ fatal = FALSE
    /\ returned = <<>>
    /\ objects = {"game", "state"}
    /\ other = <<>>
    /\ focus = "original"

\* ApplyActions(actions) -> DoApplyActions(actions)
DoApplyActions(actions) ==
    /\ current_turn_ < MaxRounds
    /\ call' = [op |-> "ApplyActions", actions |-> actions]
    /\ returned' = <<>>
    /\ UNCHANGED <<config, objects, focus>>
    /\ IF ~ValidActions(actions)
       THEN /\ fatal' = TRUE
            /\ UNCHANGED fields
       ELSE /\ fatal' = FALSE
            /\ win_sequence_' = WinSequenceAfter(actions)
            /\ net_profit_' = NetProfit(actions)
            /\ points_' = [p \in Players |->
                              IF p \in DOMAIN actions
                              THEN points_[p] + net_profit_'[p]
                              ELSE points_[p]]
            /\ actions_history_' = Append(actions_history_, actions)
            /\ current_turn_' = current_turn_ + 1
            /\ IF GameOver(current_turn_')
               THEN winners_' = DetermineWinners(points_', 0, -1, winners_)
               ELSE UNCHANGED winners_
            /\ current_player_' = PlayerAfter(current_turn_')
    /\ other' = OtherAfterWrite

\* Returns()
CallReturns ==
    /\ call' = [op |-> "Returns", actions |-> <<>>]
    /\ fatal' = FALSE
    /\ returned' = Returns
    /\ UNCHANGED <<config, fields, objects, other, focus>>

Next ==
    \/ \E actions \in JointActions \cup InvalidJointActions : DoApplyActions(actions)
    \/ CallReturns

Spec == Init /\ [][Next]_vars

----------------------------------------------------------------------------
(* A state and its clone *)

\* Clone(): `new BertrandOligopolyState(*this)`, the implicit copy constructor.
\* Every field is a value member (std::vector, std::set, int, double), so the
\* copy owns its storage and shares none.
Clone_SharedVectors ==
    [state |-> FieldsRecord,
     shared |-> {"points_", "win_sequence_", "actions_history_"}]

Clone ==
    [state |-> FieldsRecord, shared |-> {}]

CallClone ==
    /\ other = <<>>
    /\ other' = <<Clone>>
    /\ call' = [op |-> "Clone", actions |-> <<>>]
    /\ fatal' = FALSE
    /\ returned' = <<>>
    /\ UNCHANGED <<config, fields, objects, focus>>

\* The caller turns to the other of the two objects it holds: the field
\* variables now hold that object, and `other` the one they held.
SwitchFocus ==
    /\ other # <<>>
    /\ current_player_' = other[1].state.current_player_
    /\ winners_' = other[1].state.winners_
    /\ current_turn_' = other[1].state.current_turn_
    /\ points_' = other[1].state.points_
    /\ net_profit_' = other[1].state.net_profit_
    /\ win_sequence_' = other[1].state.win_sequence_
    /\ actions_history_' = other[1].state.actions_history_
    /\ other' = <<[state |-> FieldsRecord, shared |-> other[1].shared]>>
    /\ focus' = IF focus = "original" THEN "clone" ELSE "original"
    /\ call' = [op |-> "SwitchFocus", actions |-> <<>>]
    /\ fatal' = FALSE
    /\ returned' = <<>>
    /\ UNCHANGED <<config, objects>>

\* Game lengths with a terminal state before the last explored round, and at it.
ShortAndLongTurns == {1, MaxRounds}

InitClone ==
    /\ num_players_ = 2
    /\ num_options_ = 2
    /\ num_turns_ \in ShortAndLongTurns
    /\ marginal_cost_ = kDefaultMarginalCost
    /\ returns_type_ = kDefaultReturnsType
    /\ impinfo_ = kDefaultImpInfo
    /\ egocentric_ = kDefaultEgocentric
    /\ Constructed
    /\ call = [op |-> "NewInitialState", actions |-> <<>>]
    /\ fatal = FALSE
    /\ returned = <<>>
    /\ objects = {"game", "state"}
    /\ other = <<>>
    /\ focus = "original"

NextClone ==
    \/ CallClone
    \/ SwitchFocus
    \/ \E actions \in JointActions \cup InvalidJointActions : DoApplyActions(actions)

SpecClone == InitClone /\ [][NextClone]_vars

----------------------------------------------------------------------------
(* BertrandOligopolyObserver: the tensor view *)

\* Number of float units in 1.0: a float value f stands for f / FloatScale,
\* as a double d stands for d / Scale.
FloatScale == 125

\* How the binary treats an index outside a tensor block: SpanTensor::at
\* checks it in a checked build only.
Builds == {"checked", "unchecked"}

\* The IIGObservationType of the four observers the game makes:
\* default_observer_, info_state_observer_, private_observer_,
\* public_observer_.
kDefaultObsType ==
    [public_info |-> TRUE, perfect_recall |-> FALSE, private_info |-> "kSinglePlayer"]

kInfoStateObsType ==
    [public_info |-> TRUE, perfect_recall |-> TRUE, private_info |-> "kSinglePlayer"]

kPrivateObsType ==
    [public_info |-> FALSE, perfect_recall |-> FALSE, private_info |-> "kSinglePlayer"]

kPublicObsType ==
    [public_info |-> TRUE, perfect_recall |-> FALSE, private_info |-> "kNone"]

ObserverTypes == {kDefaultObsType, kInfoStateObsType, kPrivateObsType, kPublicObsType}

\* float = double : narrowing to the nearest float.
DoubleToFloat(d) == (2 * d * FloatScale + Scale) \div (2 * Scale)

\* NextPlayer(&count, &player)
NextPlayer_SamePlayer(count, player) == <<count + 1, player>>

NextPlayer(count, player) == <<count + 1, (player + 1) % num_players_>>

\* allocator->Get(name, shape): a block of the shape, filled with zeros.
Get(name, shape) ==
    [name |-> name, shape |-> shape,
     data |-> IF Len(shape) = 1
              THEN [ix \in {<<n>> : n \in 0 .. (shape[1] - 1)} |-> 0]
              ELSE [ix \in (0 .. (shape[1] - 1)) \X (0 .. (shape[2] - 1)) |-> 0]]

\* out.at(ix) = value, on the outcome `out` so far: a write inside the block
\* lands; one outside it is fatal in a checked build and in an unchecked one
\* lands beyond the block, which it leaves as it is.
At(out, ix, value, build) ==
    IF out.fatal THEN out
    ELSE IF ix \in DOMAIN out.block.data
         THEN [out EXCEPT !.block.data[ix] = value]
         ELSE IF build = "checked"
              THEN [out EXCEPT !.fatal = TRUE]
              ELSE [out EXCEPT !.overrun = TRUE]

Fresh(block) == [fatal |-> FALSE, overrun |-> FALSE, block |-> block]

\* The loop of WritePointsTotal from count n and player p on.
RECURSIVE PointsTotalLoop(_, _, _, _, _)
PointsTotalLoop(out, state, n, p, build) ==
    IF n >= num_players_ THEN out
    ELSE LET next == NextPlayer(n, p)
         IN  PointsTotalLoop(At(out, <<n>>, DoubleToFloat(state.points_[p]), build),
                             state, next[1], next[2], build)

WritePointsTotal(state, player, build) ==
    PointsTotalLoop(Fresh(Get("point_totals", <<num_players_>>)),
                    state, 0, player, build)

\* The column of the winner of a round in the requester's win_sequence block.
OneHot_Absolute(winner, player) == winner

OneHot(winner, player) ==
    IF egocentric_ THEN (num_players_ + winner - player) % num_players_
    ELSE winner

\* The loop of WriteWinSequence from round i on (state.win_sequence_[i] of the
\* code is state.win_sequence_[i + 1] of the sequence).
RECURSIVE WinSequenceLoop(_, _, _, _, _)
WinSequenceLoop(out, state, i, player, build) ==
    IF i >= Len(state.win_sequence_) THEN out
    ELSE IF state.win_sequence_[i + 1] # kInvalidPlayer
         THEN WinSequenceLoop(
                  At(out, <<i, OneHot(state.win_sequence_[i + 1], player)>>,
                     DoubleToFloat(IntToDouble(1)), build),
                  state, i + 1, player, build)
         ELSE WinSequenceLoop(out, state, i + 1, player, build)

WriteWinSequence(state, player, build) ==
    WinSequenceLoop(Fresh(Get("win_sequence", <<num_turns_, num_players_>>)),
                    state, 0, player, build)

\* The loop of WritePlayerActionSequence from round `round` on.
RECURSIVE PlayerActionSequenceLoop(_, _, _, _, _)
PlayerActionSequenceLoop(out, state, round, player, build) ==
    IF round >= Len(state.actions_history_) THEN out
    ELSE PlayerActionSequenceLoop(
             At(out, <<round, state.actions_history_[round + 1][player]>>,
                DoubleToFloat(IntToDouble(1)), build),
             state, round + 1, player, build)

WritePlayerActionSequence(state, player, build) ==
    PlayerActionSequenceLoop(
        Fresh(Get("player_action_sequence", <<num_turns_, num_options_>>)),
        state, 0, player, build)

\* One conditional write of WriteTensor: the blocks so far, then this one.
Then(result, write, out) ==
    IF result.fatal \/ ~write THEN result
    ELSE [fatal |-> out.fatal,
          overrun |-> result.overrun \/ out.overrun,
          tensor |-> Append(result.tensor, out.block)]

\* WriteTensor(observed_state, player, allocator) of the observer of type
\* iig_obs_type_: the named blocks in the order they are allocated.
WriteTensor(iig_obs_type_, state, player, build) ==
    IF ~(player >= 0 /\ player < num_players_)
    THEN [fatal |-> TRUE, overrun |-> FALSE, tensor |-> <<>>]
    ELSE LET imp_info == impinfo_
             pub_info == iig_obs_type_.public_info
             perf_rec == iig_obs_type_.perfect_recall
             priv_one == iig_obs_type_.private_info = "kSinglePlayer"
             none == [fatal |-> FALSE, overrun |-> FALSE, tensor |-> <<>>]
             first == Then(none, pub_info, WritePointsTotal(state, player, build))
             second == Then(first, imp_info /\ pub_info,
                            WriteWinSequence(state, player, build))
         IN  Then(second, imp_info /\ perf_rec /\ priv_one,
                  WritePlayerActionSequence(state, player, build))

----------------------------------------------------------------------------
(* BertrandOligopolyObserver: the string view, as the sequence of the pieces
   absl::StrAppend appends *)

\* StrAppend of a double: six significant digits. A fixed-point double below
\* 1000 has no more than six; above, the digits after the sixth are rounded.
RECURSIVE SixDigits(_, _)
SixDigits(d, unit) ==
    IF d < 0 THEN -SixDigits(-d, unit)
    ELSE IF d < 1000 * Scale * unit THEN ((2 * d + unit) \div (2 * unit)) * unit
    ELSE SixDigits(d, 10 * unit)

DoubleToString(d) == <<"double", ToString(SixDigits(d, 1))>>

IntToString(i) == <<"int", ToString(i)>>

RECURSIVE Items(_, _, _)
Items(items, i, result) ==
    IF i > Len(items) THEN result
    ELSE Items(items, i + 1, result \o <<items[i], <<" ">>>>)

StringActionSequence(state, player, result) ==
    Items([i \in 1 .. Len(state.actions_history_) |->
              IntToString(state.actions_history_[i][player])],
          1, result \o <<<<"P">>, IntToString(player), <<" action sequence: ">>>>)
        \o <<<<"\n">>>>

StringWinSequence(state, result) ==
    Items([i \in 1 .. Len(state.win_sequence_) |-> IntToString(state.win_sequence_[i])],
          1, result \o <<<<"Win sequence: ">>>>)
        \o <<<<"\n">>>>

StringPoints(state, result) ==
    Items([i \in 1 .. num_players_ |-> DoubleToString(state.points_[i - 1])],
          1, result \o <<<<"Points: ">>>>)
        \o <<<<"\n">>>>

StringIsTerminal(state, result) ==
    result \o <<<<"Terminal?: ">>,
                 IntToString(IF state.current_player_ = kTerminalPlayerId
                             THEN 1 ELSE 0),
                 <<"\n">>>>

\* Every IIGObservationType a caller can hand to MakeObserver.
IIGObservationTypes ==
    [public_info : BOOLEAN, perfect_recall : BOOLEAN,
     private_info : {"kNone", "kSinglePlayer", "kAllPlayers"}]

StringFrom_PublicRegardless(iig_obs_type_, state, player) ==
    IF ~(player >= 0 /\ player < num_players_)
    THEN [fatal |-> TRUE, string |-> <<>>]
    ELSE LET imp_info == impinfo_
             perf_rec == iig_obs_type_.perfect_recall
             priv_one == iig_obs_type_.private_info = "kSinglePlayer"
         IN  [fatal |-> FALSE,
              string |->
                  IF imp_info /\ priv_one /\ perf_rec
                  THEN StringIsTerminal(state, StringPoints(state,
                           StringWinSequence(state,
                               StringActionSequence(state, player, <<>>))))
                  ELSE IF imp_info /\ priv_one /\ ~perf_rec
                  THEN StringWinSequence(state, StringPoints(state, <<>>))
                  ELSE StringPoints(state, StringWinSequence(state, <<>>))]

StringFrom_WinSequenceFirst(iig_obs_type_, state, player) ==
    IF ~(player >= 0 /\ player < num_players_)
    THEN [fatal |-> TRUE, string |-> <<>>]
    ELSE LET imp_info == impinfo_
             pub_info == iig_obs_type_.public_info
             perf_rec == iig_obs_type_.perfect_recall
             priv_one == iig_obs_type_.private_info = "kSinglePlayer"
         IN  [fatal |-> FALSE,
              string |->
                  IF imp_info /\ priv_one /\ perf_rec
                  THEN StringIsTerminal(state, StringPoints(state,
                           StringWinSequence(state,
                               StringActionSequence(state, player, <<>>))))
                  ELSE IF imp_info /\ priv_one /\ ~perf_rec
                  THEN StringPoints(state, StringWinSequence(state, <<>>))
                  ELSE IF pub_info
                  THEN StringPoints(state, StringWinSequence(state, <<>>))
                  ELSE <<>>]

\* StringFrom(observed_state, player) of the observer of type iig_obs_type_.
StringFrom(iig_obs_type_, state, player) ==
    IF ~(player >= 0 /\ player < num_players_)
    THEN [fatal |-> TRUE, string |-> <<>>]
    ELSE LET imp_info == impinfo_
             pub_info == iig_obs_type_.public_info
             perf_rec == iig_obs_type_.perfect_recall
             priv_one == iig_obs_type_.private_info = "kSinglePlayer"
         IN  [fatal |-> FALSE,
              string |->
                  IF imp_info /\ priv_one /\ perf_rec
                  THEN StringIsTerminal(state, StringPoints(state,
                           StringWinSequence(state,
                               StringActionSequence(state, player, <<>>))))
                  ELSE IF imp_info /\ priv_one /\ ~perf_rec
                  THEN StringWinSequence(state, StringPoints(state, <<>>))
                  ELSE IF pub_info
                  THEN StringPoints(state, StringWinSequence(state, <<>>))
                  ELSE <<>>]

----------------------------------------------------------------------------
(* LegalActions and CurrentPlayer *)

RECURSIVE Power(_, _)
Power(b, e) == IF e = 0 THEN 1 ELSE b * Power(b, e - 1)

\* LegalFlatJointActions(): one flat action per joint action of the players.
LegalFlatJointActions ==
    [i \in 1 .. Power(num_options_, num_players_) |-> i - 1]

\* LegalActions(player)
LegalActions_TerminalLast(player) ==
    IF player = kSimultaneousPlayerId
    THEN [fatal |-> FALSE, movelist |-> LegalFlatJointActions]
    ELSE IF player = kChancePlayerId THEN [fatal |-> TRUE, movelist |-> <<>>]
    ELSE IF ~(player >= 0 /\ player < num_players_)
    THEN [fatal |-> TRUE, movelist |-> <<>>]
    ELSE IF current_player_ = kTerminalPlayerId
    THEN [fatal |-> FALSE, movelist |-> <<>>]
    ELSE [fatal |-> FALSE, movelist |-> [i \in 1 .. num_options_ |-> i - 1]]

LegalActions_NoTerminalCheck(player) ==
    IF player = kSimultaneousPlayerId
    THEN [fatal |-> FALSE, movelist |-> LegalFlatJointActions]
    ELSE IF player = kChancePlayerId THEN [fatal |-> TRUE, movelist |-> <<>>]
    ELSE IF ~(player >= 0 /\ player < num_players_)
    THEN [fatal |-> TRUE, movelist |-> <<>>]
    ELSE [fatal |-> FALSE, movelist |-> [i \in 1 .. num_options_ |-> i - 1]]

LegalActions(player) ==
    IF current_player_ = kTerminalPlayerId
    THEN [fatal |-> FALSE, movelist |-> <<>>]
    ELSE IF player = kSimultaneousPlayerId
    THEN [fatal |-> FALSE, movelist |-> LegalFlatJointActions]
    ELSE IF player = kChancePlayerId THEN [fatal |-> TRUE, movelist |-> <<>>]
    ELSE IF ~(player >= 0 /\ player < num_players_)
    THEN [fatal |-> TRUE, movelist |-> <<>>]
    ELSE [fatal |-> FALSE, movelist |-> [i \in 1 .. num_options_ |-> i - 1]]

CurrentPlayer == current_player_

----------------------------------------------------------------------------
(* A state, stepped and observed *)

\* The operations that construct or change a state; the others are queries.
MutatorOps == {"NewInitialState", "ApplyActions"}

\* Player indices a view is asked for: the players, and the nearest indices
\* on either side that are neither a player nor one of the framework's
\* special player ids (-1 .. -5).
ViewPlayers == Players \cup {num_players_, -6}

\* Player indices LegalActions is asked for.
LegalActionsPlayers == ViewPlayers \cup {kSimultaneousPlayerId, kChancePlayerId}

Query(op, iig_obs_type, player) ==
    [op |-> op, actions |-> <<>>, iig_obs_type |-> iig_obs_type, player |-> player]

\* observer->WriteTensor(state, player, allocator), in either build.
CallWriteTensor_ConsumesWinSequence(iig_obs_type, player, build) ==
    /\ call.op \in MutatorOps
    /\ call' = Query("WriteTensor", iig_obs_type, player)
    /\ fatal' = WriteTensor(iig_obs_type, FieldsRecord, player, build).fatal
    /\ returned' = WriteTensor(iig_obs_type, FieldsRecord, player, build)
    /\ win_sequence_' = <<>>
    /\ UNCHANGED <<config, current_player_, winners_, current_turn_, points_,
                   net_profit_, actions_history_, objects, other, focus>>

CallWriteTensor(iig_obs_type, player, build) ==
    /\ call.op \in MutatorOps
    /\ call' = Query("WriteTensor", iig_obs_type, player)
    /\ fatal' = WriteTensor(iig_obs_type, FieldsRecord, player, build).fatal
    /\ returned' = WriteTensor(iig_obs_type, FieldsRecord, player, build)
    /\ UNCHANGED <<config, fields, objects, other, focus>>

\* observer->StringFrom(state, player)
CallStringFrom(iig_obs_type, player) ==
    /\ call.op \in MutatorOps
    /\ call' = Query("StringFrom", iig_obs_type, player)
    /\ fatal' = StringFrom(iig_obs_type, FieldsRecord, player).fatal
    /\ returned' = StringFrom(iig_obs_type, FieldsRecord, player)
    /\ UNCHANGED <<config, fields, objects, other, focus>>

\* LegalActions(player)
CallLegalActions(player) ==
    /\ call.op \in MutatorOps
    /\ call' = Query("LegalActions", <<>>, player)
    /\ fatal' = LegalActions(player).fatal
    /\ returned' = LegalActions(player)
    /\ UNCHANGED <<config, fields, objects, other, focus>>

\* IsTerminal()
CallIsTerminal ==
    /\ call.op \in MutatorOps
    /\ call' = [op |-> "IsTerminal", actions |-> <<>>]
    /\ fatal' = FALSE
    /\ returned' = <<IsTerminal>>
    /\ UNCHANGED <<config, fields, objects, other, focus>>

\* CurrentPlayer()
CallCurrentPlayer ==
    /\ call.op \in MutatorOps
    /\ call' = [op |-> "CurrentPlayer", actions |-> <<>>]
    /\ fatal' = FALSE
    /\ returned' = <<CurrentPlayer>>
    /\ UNCHANGED <<config, fields, objects, other, focus>>

\* The parameters players, num_options and imp_info of the observed games.
ObsGameChoices == {<<2, 2, FALSE>>, <<2, 2, TRUE>>, <<3, 2, TRUE>>}

InitObs ==
    /\ \E c \in ObsGameChoices :
           num_players_ = c[1] /\ num_options_ = c[2] /\ impinfo_ = c[3]
    /\ num_turns_ \in ShortAndLongTurns
    /\ marginal_cost_ = kDefaultMarginalCost
    /\ returns_type_ = kDefaultReturnsType
    /\ egocentric_ \in BOOLEAN
    /\ Constructed
    /\ call = [op |-> "NewInitialState", actions |-> <<>>]
    /\ fatal = FALSE
    /\ returned = <<>>
    /\ objects = {"game", "state"}
    /\ other = <<>>
    /\ focus = "original"

NextObs ==
    \/ \E actions \in JointActions : DoApplyActions(actions)
    \/ \E iig_obs_type \in ObserverTypes, player \in ViewPlayers, build \in Builds :
           CallWriteTensor(iig_obs_type, player, build)
    \/ \E iig_obs_type \in ObserverTypes, player \in ViewPlayers :
           CallStringFrom(iig_obs_type, player)
    \/ \E player \in LegalActionsPlayers : CallLegalActions(player)
    \/ CallIsTerminal
    \/ CallCurrentPlayer
    \/ call.op \in MutatorOps /\ CallReturns

SpecObs == InitObs /\ [][NextObs]_vars

----------------------------------------------------------------------------
(* A second run: the state a fresh game reaches on a given history *)

\* The fields of a state as its constructor leaves them.
InitialState ==
    [current_player_ |-> kSimultaneousPlayerId, winners_ |-> {},
     current_turn_ |-> 0, points_ |-> [p \in Players |-> 0],
     net_profit_ |-> [p \in Players |-> 0], win_sequence_ |-> <<>>,
     actions_history_ |-> <<>>]

\* DoApplyActions(actions) on the state with the given fields, for a valid
\* joint action.
ApplyTo(state, actions) ==
    LET scan == MinScan(actions, 0, INT_MAX, 0, -1)
        points == [p \in Players |-> state.points_[p] + NetProfit(actions)[p]]
        turn == state.current_turn_ + 1
    IN  [current_player_ |-> IF GameOver(turn) THEN kTerminalPlayerId
                             ELSE state.current_player_,
         winners_ |-> IF GameOver(turn)
                      THEN DetermineWinners(points, 0, -1, state.winners_)
                      ELSE state.winners_,
         current_turn_ |-> turn,
         points_ |-> points,
         net_profit_ |-> NetProfit(actions),
         win_sequence_ |-> Append(state.win_sequence_,
                                  IF scan.num_min_prices = 1 THEN scan.min_actor
                                  ELSE kInvalidPlayer),
         actions_history_ |-> Append(state.actions_history_, actions)]

\* NewInitialState() followed by ApplyActions of the first n joint actions of
\* the history.
RECURSIVE Replay(_, _)
Replay(history, n) ==
    IF n = 0 THEN InitialState ELSE ApplyTo(Replay(history, n - 1), history[n])

\* The run of the test with the two sequences played by the other player
\* each: joint_actions[as_player] = seq1[t],
\* joint_actions[(as_player + 1) % NumPlayers] = seq2[t].
Mirrored(history) ==
    [t \in 1 .. Len(history) |->
        [p \in Players |-> history[t][(p + 1) % num_players_]]]

----------------------------------------------------------------------------
(* The game object and the states it makes *)

\* step_size_ of BertrandOligopolyGame, computed by its constructor for any
\* num_options_: a double division, which for num_options_ = 1 divides the
\* positive width of the interval by zero and gives infinity.
Game_step_size_ ==
    IF num_options_ = 1 THEN <<"inf", 0>>
    ELSE <<"finite", FDiv(interval_second - interval_first, num_options_ - 1)>>

\* LoadGame(params): the constructor of BertrandOligopolyGame.
LoadGame ==
    /\ objects = {}
    /\ objects' = {"game"}
    /\ call' = [op |-> "LoadGame", actions |-> <<>>]
    /\ fatal' = FALSE
    /\ returned' = <<Game_step_size_>>
    /\ UNCHANGED <<config, fields, other, focus>>

\* game->NewInitialState(): the constructor of BertrandOligopolyState, with
\* its SPIEL_CHECK_GT(num_options_, 1).
NewInitialState ==
    /\ "game" \in objects
    /\ call' = [op |-> "NewInitialState", actions |-> <<>>]
    /\ returned' = <<>>
    /\ UNCHANGED <<config, other, focus>>
    /\ IF num_options_ > 1
       THEN /\ fatal' = FALSE
            /\ objects' = {"game", "state"}
            /\ current_player_' = kSimultaneousPlayerId
            /\ winners_' = {}
            /\ current_turn_' = 0
            /\ win_sequence_' = <<>>
            /\ actions_history_' = <<>>
            /\ points_' = [p \in Players |-> 0]
            /\ net_profit_' = [p \in Players |-> 0]
       ELSE /\ fatal' = TRUE
            /\ UNCHANGED <<objects, fields>>

\* FlatJointActionToActions(flat_action): the digits of the flat action in
\* base num_options_, player 0 the least significant.
FlatJointActionToActions(flat_action) ==
    [p \in Players |-> (flat_action \div Power(num_options_, p)) % num_options_]

\* ApplyAction(action_id) -> DoApplyAction(action_id)
DoApplyAction(action_id) ==
    IF current_player_ = kSimultaneousPlayerId
    THEN DoApplyActions(FlatJointActionToActions(action_id))
    ELSE /\ call' = [op |-> "ApplyAction", actions |-> <<>>]
         /\ returned' = <<>>
         /\ fatal' = (current_player_ # kChancePlayerId)
         /\ current_player_' = IF current_player_ = kChancePlayerId
                               THEN kSimultaneousPlayerId
                               ELSE current_player_
         /\ UNCHANGED <<config, winners_, current_turn_, points_, net_profit_,
                        win_sequence_, actions_history_, objects, other, focus>>

\* The values of the parameter num_options a game is loaded with.
GameOptionsChoices == 0 .. 3

InitGame ==
    /\ num_players_ = 2
    /\ num_options_ \in GameOptionsChoices
    /\ num_turns_ \in TurnsChoices
    /\ marginal_cost_ = kDefaultMarginalCost
    /\ returns_type_ = kDefaultReturnsType
    /\ impinfo_ = kDefaultImpInfo
    /\ egocentric_ = kDefaultEgocentric
    /\ Constructed
    /\ call = [op |-> "", actions |-> <<>>]
    /\ fatal = FALSE
    /\ returned = <<>>
    /\ objects = {}
    /\ other = <<>>
    /\ focus = "original"

NextGame ==
    \/ LoadGame
    \/ NewInitialState
    \/ "state" \in objects /\ \E actions \in JointActions : DoApplyActions(actions)
    \/ "state" \in objects
           /\ \E action_id \in 0 .. (Power(num_options_, num_players_) - 1) :
                  DoApplyAction(action_id)
    \/ "state" \in objects /\ CallCurrentPlayer

SpecGame == InitGame /\ [][NextGame]_vars

----------------------------------------------------------------------------
(* The tensor shapes and the utility bounds the game declares *)

InformationStateTensorShape == <<num_players_ * num_options_>>

ObservationTensorShape == <<num_players_ * num_options_>>

\* MinUtility() and MaxUtility() of the game, as doubles.
MinUtility ==
    IF returns_type_ = "kWinLoss" THEN IntToDouble(-1)
    ELSE IF returns_type_ = "kPointDifference" THEN IntToDouble(0)
    ELSE IF interval_first - IntToDouble(marginal_cost_) < 0
         THEN (interval_first - IntToDouble(marginal_cost_)) * num_turns_
         ELSE IntToDouble(0)

MaxUtility ==
    IF returns_type_ = "kWinLoss" THEN IntToDouble(1)
    ELSE (monopoly_price_ - IntToDouble(marginal_cost_)) * num_turns_

----------------------------------------------------------------------------
(* Properties *)

ZeroVector == [p \in Players |-> Zero]

MaxOf(points) == CHOOSE m \in {points[p] : p \in Players} :
                     \A q \in Players : points[q] <= m

RECURSIVE SumOver(_, _)
SumOver(f, S) ==
    IF S = {} THEN 0
    ELSE LET x == CHOOSE y \in S : TRUE IN f[x] + SumOver(f, S \ {x})

\* Sum of a vector of rationals, as a rational.
RatAdd(r, s) == IF r[2] = s[2] THEN <<r[1] + s[1], r[2]>>
                ELSE <<r[1] * s[2] + s[1] * r[2], r[2] * s[2]>>

RECURSIVE RatSum(_, _)
RatSum(r, S) ==
    IF S = {} THEN Zero
    ELSE LET x == CHOOSE y \in S : TRUE IN RatAdd(r[x], RatSum(r, S \ {x}))

\* What the specification calls an invalid joint action.
Rejected(actions) ==
    \/ Size(actions) # num_players_
    \/ \E p \in DOMAIN actions : actions[p] < 0 \/ actions[p] >= num_options_

\* C1: a state is not terminal after fewer than numTurns applications of
\* applyJointAction and is terminal after the numTurns-th, when
\* jointActionHistory has exactly numTurns entries.
C1_TerminalAfterNumTurns ==
    /\ Len(actions_history_) < num_turns_ => ~IsTerminal
    /\ (Len(actions_history_) >= 1 /\ Len(actions_history_) = num_turns_)
           => IsTerminal

C1_Witness ==
    /\ num_turns_ = MaxRounds
    /\ Len(actions_history_) = num_turns_
    /\ IsTerminal

\* C2: in every reachable state, the initial one included and for every
\* numTurns, the state is terminal iff currentRound = numTurns.
C2_TerminalIffRoundIsNumTurns == IsTerminal <=> (current_turn_ = num_turns_)

\* C3: winSequence, jointActionHistory and currentRound have the same length
\* in every state, and each successful applyJointAction adds one to each.
C3_LengthsAgree ==
    /\ [](/\ Len(win_sequence_) = Len(actions_history_)
          /\ Len(actions_history_) = current_turn_)
    /\ [][(call'.op = "ApplyActions" /\ ~fatal')
             => /\ Len(win_sequence_') = Len(win_sequence_) + 1
                /\ Len(actions_history_') = Len(actions_history_) + 1
                /\ current_turn_' = current_turn_ + 1]_vars

C3_Witness ==
    /\ current_turn_ = MaxRounds
    /\ \E i \in 1 .. Len(win_sequence_) : win_sequence_[i] = kInvalidPlayer
    /\ \E i \in 1 .. Len(win_sequence_) : win_sequence_[i] # kInvalidPlayer

\* C4: once a state is terminal no operation, a further applyJointAction with
\* a valid joint action included, changes points, winSequence or winners, and
\* the state stays terminal.
C4_TerminalStateFrozen ==
    [][IsTerminal => /\ points_' = points_
                     /\ win_sequence_' = win_sequence_
                     /\ winners_' = winners_
                     /\ IsTerminal']_vars

\* C5: when a state becomes terminal, winners is exactly the set of players
\* whose points equal the maximum of points over all players.
C5_WinnersAreTheMaxima ==
    (IsTerminal /\ current_turn_ = num_turns_)
        => winners_ = {p \in Players : points_[p] = MaxOf(points_)}

\* C6: under WinLoss, in every terminal state the returns are all zero when
\* all players have equal points, and sum to zero otherwise.
C6_WinLossZeroSum ==
    (IsTerminal /\ returns_type_ = "kWinLoss")
        => IF \A p, q \in Players : points_[p] = points_[q]
           THEN Returns = ZeroVector
           ELSE RatSum(Returns, Players)[1] = 0

\* C7: under PointDifference, in every terminal state each player's return is
\* that player's points minus the mean of all players' points, and the
\* returns sum to zero.
C7_PointDifference ==
    (IsTerminal /\ returns_type_ = "kPointDifference")
        => /\ DOMAIN Returns = Players
           /\ \A p \in Players :
                  Returns[p][1] * (num_players_ * Scale)
                      = (num_players_ * points_[p] - SumOver(points_, Players))
                            * Returns[p][2]
           /\ RatSum(Returns, Players)[1] = 0
           /\ call.op = "Returns" => returned = Returns

C7_Witness ==
    /\ IsTerminal
    /\ returns_type_ = "kPointDifference"
    /\ call.op = "Returns"
    /\ \E p, q \in Players : points_[p] > points_[q]
    /\ \E p \in Players : returned[p][1] < 0

\* C8: in every non-terminal state returns() is the all-zero vector of length
\* numPlayers, whatever the returns policy and the points so far.
C8_NoReturnsBeforeTerminal ==
    ~IsTerminal => /\ Returns = ZeroVector
                   /\ call.op = "Returns" => returned = ZeroVector

C8_Witness ==
    /\ ~IsTerminal
    /\ call.op = "Returns"
    /\ returned = ZeroVector
    /\ \E p, q \in Players : points_[p] # 0 /\ points_[p] # points_[q]

\* C9: applyJointAction with a vector whose length is not numPlayers, or with
\* an entry outside [0, numOptions), fails fatally and leaves every field of
\* the state unchanged.
C9_InvalidActionRejected ==
    [][(call'.op = "ApplyActions" /\ Rejected(call'.actions))
          => fatal' /\ UNCHANGED fields]_vars

C9_Witness ==
    /\ call.op = "ApplyActions"
    /\ Size(call.actions) = num_players_
    /\ \E p \in Players : call.actions[p] = num_options_
    /\ fatal
    /\ current_turn_ >= 1

\* C10: the entry appended to winSequence for a round is the player with the
\* strictly lowest action when exactly one player chose the minimum action,
\* and NONE when two or more did, for any number of players and any position
\* of the minimum.
C10_WinSequenceEntry ==
    \A i \in 1 .. Len(win_sequence_) :
        i <= Len(actions_history_) =>
            LET a == actions_history_[i]
                lowest == {p \in DOMAIN a : \A q \in DOMAIN a : a[p] <= a[q]}
            IN  IF Cardinality(lowest) = 1
                THEN win_sequence_[i] \in lowest
                ELSE win_sequence_[i] = kInvalidPlayer

C10_Witness ==
    /\ num_players_ = 3
    /\ \E i \in 1 .. Len(win_sequence_) :
           /\ win_sequence_[i] = 2
           /\ actions_history_[i][0] = actions_history_[i][1]
    /\ \E i \in 1 .. Len(win_sequence_) :
           /\ win_sequence_[i] = kInvalidPlayer
           /\ actions_history_[i][0] > actions_history_[i][1]

\* C12: immediately after Clone() the clone's fields equal the original's,
\* which are themselves unchanged; and a joint action applied to either of the
\* two objects (the one in focus) changes no field of the other one.
C12_CloneIsIndependent ==
    [][/\ call'.op = "Clone" =>
            /\ other' # <<>>
            /\ other'[1].state = FieldsRecord'
            /\ UNCHANGED fields
       /\ (call'.op = "ApplyActions" /\ other # <<>>) =>
            /\ other' # <<>>
            /\ other'[1].state = other[1].state]_vars

\* The clone has been stepped one round further than the original it was
\* taken from, and two rounds are in its own history.
C12_Witness ==
    /\ other # <<>>
    /\ focus = "clone"
    /\ call.op = "ApplyActions"
    /\ ~fatal
    /\ current_turn_ = 2
    /\ other[1].state.current_turn_ = 1
    /\ Len(other[1].state.actions_history_) = 1

\* The operations that are queries of a state.
QueryOps == {"WriteTensor", "StringFrom", "LegalActions", "IsTerminal",
             "Returns", "CurrentPlayer"}

\* The block of the name in a tensor view, as a sequence of zero or one blocks.
Block(tensor, name) == SelectSeq(tensor, LAMBDA b : b.name = name)

\* C13: rendering a string view or a tensor view, for any player and any
\* visibility policy, and calling legalActions, isTerminal or returns
\* (or currentPlayer), leaves every field of the state unchanged, whether the
\* call returns or fails.
C13_QueriesChangeNothing ==
    [][call'.op \in QueryOps => UNCHANGED <<config, fields>>]_vars

\* A full information-state tensor has just been rendered from a state with
\* two rounds played.
C13_Witness ==
    /\ call.op = "WriteTensor"
    /\ ~fatal
    /\ Len(returned.tensor) = 3
    /\ current_turn_ = 2
    /\ Len(win_sequence_) = 2

UpTo(n) == [i \in 1 .. n |-> i - 1]

\* C15: legalActions(player) returns the empty sequence in every terminal
\* state, and in every non-terminal state returns exactly the sequence
\* 0, 1, ..., numOptions-1 for every player index in [0, numPlayers),
\* whatever the history of play.
C15_LegalActions ==
    call.op = "LegalActions" =>
        /\ IsTerminal => (~fatal /\ returned.movelist = <<>>)
        /\ (~IsTerminal /\ call.player \in Players)
               => (~fatal /\ returned.movelist = UpTo(num_options_))

\* The last player asks after one round of a longer game, in which the
\* players chose different actions.
C15_Witness ==
    /\ call.op = "LegalActions"
    /\ call.player = num_players_ - 1
    /\ ~IsTerminal
    /\ current_turn_ = 1
    /\ actions_history_[1][0] # actions_history_[1][1]
    /\ returned.movelist = <<0, 1>>

\* C16: in every reachable state currentPlayer() is the simultaneous token
\* when the state is not terminal and the terminal token when it is; it is
\* never the chance token, so no chance phase is ever reached.
C16_SimultaneousOrTerminal ==
    "state" \in objects =>
        /\ current_player_ \in {kSimultaneousPlayerId, kTerminalPlayerId}
        /\ current_player_ # kChancePlayerId
        /\ CurrentPlayer = IF IsTerminal THEN kTerminalPlayerId
                           ELSE kSimultaneousPlayerId
        /\ (call.op = "CurrentPlayer" /\ num_turns_ >= 1)
               => returned = <<IF current_turn_ >= num_turns_
                               THEN kTerminalPlayerId
                               ELSE kSimultaneousPlayerId>>

\* currentPlayer() has returned the simultaneous token after one round of a
\* longer game.
C16_Witness ==
    /\ "state" \in objects
    /\ call.op = "CurrentPlayer"
    /\ returned = <<kSimultaneousPlayerId>>
    /\ current_turn_ = 1
    /\ num_turns_ = 2

\* C17: constructing the game Descriptor from a configuration with
\* numOptions <= 1 is a fatal error at Descriptor construction, so no
\* Descriptor and no State ever exists with a zero-width, undefined or
\* non-positive stepSize.
C17_NoGameWithoutStepSize ==
    /\ (call.op = "LoadGame" /\ num_options_ <= 1) => fatal
    /\ "game" \in objects =>
           /\ num_options_ > 1
           /\ Game_step_size_[1] = "finite"
           /\ Game_step_size_[2] > 0
    /\ "state" \in objects => (num_options_ > 1 /\ step_size_ > 0)

\* C18 (as stated): in every state, terminal or not, a string view, a tensor
\* view or legalActions requested for a player index outside [0, numPlayers)
\* that is not a special token fails fatally.
C18_OutOfRangePlayerIsFatal ==
    (/\ call.op \in {"WriteTensor", "StringFrom", "LegalActions"}
     /\ call.player \in {num_players_, -6})
        => fatal

\* C18 (amended): a string view or a tensor view requested for such a player
\* index fails fatally in every state; legalActions fails fatally for it in
\* every non-terminal state, and in a terminal state returns the empty
\* sequence without failing.
C18_OutOfRangePlayerIsFatalUnlessTerminalLegalActions ==
    (/\ call.op \in {"WriteTensor", "StringFrom", "LegalActions"}
     /\ call.player \in {num_players_, -6})
        => IF call.op = "LegalActions" /\ IsTerminal
           THEN ~fatal /\ returned.movelist = <<>>
           ELSE fatal

\* legalActions has been asked for the index numPlayers in a terminal state
\* and has returned.
C18_Witness ==
    /\ call.op = "LegalActions"
    /\ call.player = num_players_
    /\ IsTerminal
    /\ ~fatal
    /\ current_turn_ = num_turns_

\* The policy of the last view asked for shows public information.
PublicInfo == call.iig_obs_type.public_info

\* C19 (as stated): whenever publicInfo is set, the pointTotals block of the
\* tensor view for requester r holds points[(r+n) mod numPlayers] at n, for
\* every n in [0, numPlayers), whether or not egocentric is set; when
\* publicInfo is not set the block is not written.
C19_PointTotalsArePoints ==
    (call.op = "WriteTensor" /\ ~fatal) =>
        IF PublicInfo
        THEN /\ Len(Block(returned.tensor, "point_totals")) = 1
             /\ \A n \in Players :
                    Block(returned.tensor, "point_totals")[1].data[<<n>>] * Scale
                        = points_[(call.player + n) % num_players_] * FloatScale
        ELSE Block(returned.tensor, "point_totals") = <<>>

\* C19 (amended): whenever publicInfo is set, the pointTotals block for
\* requester r holds at n the single-precision value nearest to
\* points[(r+n) mod numPlayers] (within half a float unit of it), for every n
\* in [0, numPlayers), whether or not egocentric is set; when publicInfo is
\* not set the block is not written.
C19_PointTotalsAreNarrowedPoints ==
    (call.op = "WriteTensor" /\ ~fatal) =>
        IF PublicInfo
        THEN /\ Len(Block(returned.tensor, "point_totals")) = 1
             /\ DOMAIN Block(returned.tensor, "point_totals")[1].data
                    = {<<n>> : n \in Players}
             /\ \A n \in Players :
                    2 * (Block(returned.tensor, "point_totals")[1].data[<<n>>] * Scale
                         - points_[(call.player + n) % num_players_] * FloatScale)
                        \in (-Scale) .. Scale
        ELSE Block(returned.tensor, "point_totals") = <<>>

\* The last of three players, with egocentric off, gets a block that starts
\* with its own points, which differ from those of the other two.
C19_Witness ==
    /\ call.op = "WriteTensor"
    /\ ~fatal
    /\ PublicInfo
    /\ ~egocentric_
    /\ num_players_ = 3
    /\ call.player = 2
    /\ points_[2] # points_[0]
    /\ points_[0] # points_[1]
    /\ Block(returned.tensor, "point_totals")[1].data[<<0>>] = DoubleToFloat(points_[2])
    /\ Block(returned.tensor, "point_totals")[1].data[<<0>>] * Scale
           # points_[2] * FloatScale

\* The columns of row i of a two-dimensional block that hold 1.0.
Ones(block, i) ==
    {c \in 0 .. (block.shape[2] - 1) :
        <<i, c>> \in DOMAIN block.data /\ block.data[<<i, c>>] = FloatScale}

\* Row i of a two-dimensional block exists and is all zero.
ZeroRow(block, i) ==
    \A c \in 0 .. (block.shape[2] - 1) :
        <<i, c>> \in DOMAIN block.data /\ block.data[<<i, c>>] = 0

\* C20: when imperfectInfo and publicInfo both hold, the winSequence block has,
\* for every played round i with winner w, exactly one 1.0 in row i, at column
\* w if egocentric is off and at column (numPlayers + w - requester) mod
\* numPlayers if it is on; rows of tied rounds and of rounds not yet played
\* are all zero; when imperfectInfo or publicInfo is false the block is not
\* written.
C20_WinSequenceBlock ==
    (call.op = "WriteTensor" /\ call.player \in Players) =>
        IF impinfo_ /\ PublicInfo
        THEN /\ ~fatal
             /\ Len(Block(returned.tensor, "win_sequence")) = 1
             /\ \A i \in 0 .. (Len(win_sequence_) - 1) :
                    IF win_sequence_[i + 1] # kInvalidPlayer
                    THEN Ones(Block(returned.tensor, "win_sequence")[1], i)
                             = {IF egocentric_
                                THEN (num_players_ + win_sequence_[i + 1] - call.player)
                                         % num_players_
                                ELSE win_sequence_[i + 1]}
                    ELSE ZeroRow(Block(returned.tensor, "win_sequence")[1], i)
             /\ \A i \in Len(win_sequence_) .. (num_turns_ - 1) :
                    ZeroRow(Block(returned.tensor, "win_sequence")[1], i)
        ELSE ~fatal /\ Block(returned.tensor, "win_sequence") = <<>>

\* C20, for the rounds up to the length of the game: the statement of C20
\* when no more than numTurns rounds have been played.
C20_WithinGameLength == Len(win_sequence_) <= num_turns_ => C20_WinSequenceBlock

\* The labels that open the four blocks of a string view, in the order
\* own action history, win sequence, points, terminal flag.
BlockOrder ==
    <<<<"P">>, <<"Win sequence: ">>, <<"Points: ">>, <<"Terminal?: ">>>>

BlockLabels == {BlockOrder[k] : k \in DOMAIN BlockOrder}

\* The blocks of a string view, by their labels, in the order of appearance.
Blocks(string) == SelectSeq(string, LAMBDA token : token \in BlockLabels)

FullPrivateRecallView == BlockOrder
PrivateNoRecallView == <<<<"Points: ">>, <<"Win sequence: ">>>>
GenericPublicView == <<<<"Win sequence: ">>, <<"Points: ">>>>
Branches == {FullPrivateRecallView, PrivateNoRecallView, GenericPublicView}

\* The string view of the observed state for the requesting player of the
\* last StringFrom call under the visibility policy type: the returned string
\* for the policy of the call, the rendering of the same state otherwise.
ViewOf(type) ==
    IF type = call.iig_obs_type
    THEN returned.string
    ELSE StringFrom(type, FieldsRecord, call.player).string

StringViewReturned == call.op = "StringFrom" /\ ~fatal

\* C21 (as stated): for every combination of imperfectInfo, publicInfo,
\* perfectRecall and privateToRequester the string view is the output of
\* exactly one of the three branches.
C21_ExactlyOneBranch ==
    StringViewReturned =>
        \A type \in IIGObservationTypes : Blocks(ViewOf(type)) \in Branches

\* C21 (amended): the string view is the output of exactly one of the three
\* branches when publicInfo holds or imperfectInfo and privateToRequester
\* both hold, and of no branch, the empty string, otherwise.
C21_AtMostOneBranch ==
    StringViewReturned =>
        \A type \in IIGObservationTypes :
            IF type.public_info
               \/ (impinfo_ /\ type.private_info = "kSinglePlayer")
            THEN Blocks(ViewOf(type)) \in Branches
            ELSE ViewOf(type) = <<>>

C21_Witness ==
    /\ StringViewReturned
    /\ call.iig_obs_type = kPrivateObsType
    /\ ~impinfo_
    /\ Len(win_sequence_) > 0
    /\ returned.string = <<>>

Rank(label) == CHOOSE k \in DOMAIN BlockOrder : BlockOrder[k] = label

InBlockOrder(blocks) ==
    \A i, j \in DOMAIN blocks : i < j => Rank(blocks[i]) < Rank(blocks[j])

HasBoth(blocks) ==
    /\ \E i \in DOMAIN blocks : blocks[i] = <<"Win sequence: ">>
    /\ \E i \in DOMAIN blocks : blocks[i] = <<"Points: ">>

\* C22 (as stated): every string view that holds both the win-sequence block
\* and the points block has its blocks in the order own action history, win
\* sequence, points, terminal flag, under every visibility policy.
C22_FixedBlockOrder ==
    StringViewReturned =>
        \A type \in IIGObservationTypes :
            HasBoth(Blocks(ViewOf(type))) => InBlockOrder(Blocks(ViewOf(type)))

\* C22 (amended): a string view that holds both blocks has them in the order
\* own action history, win sequence, points, terminal flag, except in the
\* private-no-recall view (imperfectInfo and privateToRequester without
\* perfectRecall), where the points block precedes the win-sequence block.
C22_BlockOrderByBranch ==
    StringViewReturned =>
        \A type \in IIGObservationTypes :
            HasBoth(Blocks(ViewOf(type))) =>
                IF impinfo_ /\ type.private_info = "kSinglePlayer"
                   /\ ~type.perfect_recall
                THEN Blocks(ViewOf(type)) = PrivateNoRecallView
                ELSE InBlockOrder(Blocks(ViewOf(type)))

C22_Witness ==
    /\ StringViewReturned
    /\ call.iig_obs_type = kDefaultObsType
    /\ impinfo_
    /\ Len(win_sequence_) > 0
    /\ Blocks(returned.string) = <<<<"Points: ">>, <<"Win sequence: ">>>>

PrivateRecall ==
    /\ call.iig_obs_type.perfect_recall
    /\ call.iig_obs_type.private_info = "kSinglePlayer"

\* C23: when imperfectInfo, perfectRecall and privateToRequester all hold, the
\* playerActionSequence block has, for every played round i, exactly one 1.0
\* in row i, at the column of the requester's own action of round i, and
\* all-zero rows for the rounds not yet played; otherwise the block is not
\* written.
C23_PlayerActionSequenceBlock ==
    (call.op = "WriteTensor" /\ call.player \in Players) =>
        IF impinfo_ /\ PrivateRecall
        THEN /\ ~fatal
             /\ Len(Block(returned.tensor, "player_action_sequence")) = 1
             /\ \A i \in 0 .. (Len(actions_history_) - 1) :
                    Ones(Block(returned.tensor, "player_action_sequence")[1], i)
                        = {actions_history_[i + 1][call.player]}
             /\ \A i \in Len(actions_history_) .. (num_turns_ - 1) :
                    ZeroRow(Block(returned.tensor, "player_action_sequence")[1], i)
        ELSE ~fatal /\ Block(returned.tensor, "player_action_sequence") = <<>>

\* C23, for the rounds up to the length of the game: the statement of C23
\* when no more than numTurns rounds have been played.
C23_WithinGameLength ==
    Len(actions_history_) <= num_turns_ => C23_PlayerActionSequenceBlock

PlayerOrders == {f \in [Players -> Players] : \A p \in Players : \E q \in Players : f[q] = p}

C26_WinnersNonEmpty ==
    IsTerminal =>
        /\ winners_ # {}
        /\ returns_type_ = "kWinLoss" =>
               \E p \in Players : Returns_NoTerminalCheck[p][1] >= 0

\* C26, for points above -1: the statement of C26 for the terminal states in
\* which some player has more than -1 point at the end of the game.
C26_AboveMinusOne ==
    (\E p \in Players : points_[p] > IntToDouble(-1) /\ Len(win_sequence_) = num_turns_)
        => C26_WinnersNonEmpty

\* The number of elements of a shape, and of the blocks of a tensor view.
NumElements(shape) == IF Len(shape) = 1 THEN shape[1] ELSE shape[1] * shape[2]

RECURSIVE TotalElements(_)
TotalElements(tensor) ==
    IF tensor = <<>> THEN 0
    ELSE NumElements(Head(tensor).shape) + TotalElements(Tail(tensor))

\* C27: for every configuration, the blocks written by the tensor view of the
\* information-state policy and of the observation policy have together no
\* more elements than the declared tensor shape, numPlayers * numOptions.
C27_BlocksFitDeclaredShape ==
    (call.op = "WriteTensor" /\ ~fatal) =>
        /\ call.iig_obs_type = kInfoStateObsType =>
               TotalElements(returned.tensor) <= NumElements(InformationStateTensorShape)
        /\ call.iig_obs_type = kDefaultObsType =>
               TotalElements(returned.tensor) <= NumElements(ObservationTensorShape)

\* C27, without imperfectInfo: the statement of C27 for the games in which
\* the imp_info parameter is false, where only pointTotals is written.
C27_PerfectInformation == ~impinfo_ => C27_BlocksFitDeclaredShape

\* A return, a fraction <<numerator, denominator>>, is no less than, and no
\* more than, a double.
AtLeast(return, double) == double * return[2] <= return[1] * Scale
AtMost(return, double) == return[1] * Scale <= double * return[2]

\* C28: for every returns policy and every reachable terminal state, the
\* return of each player lies between the declared minUtility and maxUtility,
\* inclusive.
C28_ReturnsWithinUtilityBounds ==
    (call.op = "Returns" /\ IsTerminal) =>
        \A p \in Players :
            AtLeast(returned[p], MinUtility) /\ AtMost(returned[p], MaxUtility)

\* C28, for WinLoss: the statement of C28 under the WinLoss policy.
C28_WinLoss == returns_type_ = "kWinLoss" => C28_ReturnsWithinUtilityBounds

====
